---- MODULE Spec2Model ----
(***************************************************************************)
(* Model of niio/loaded.py: the extension dispatcher `load` and the        *)
(* readers loadMat, loadGii and loadH5.  Each specification below models   *)
(* one call of one function: Init draws the arguments and the file the     *)
(* call finds on disk, the actions are the steps of the function body.     *)
(*                                                                         *)
(* Strings that the code inspects character by character (paths, key       *)
(* names) are sequences of one-character strings.  A numpy array is a      *)
(* record [shape, flat] with `flat` the elements in row-major order.       *)
(***************************************************************************)
EXTENDS Integers, Sequences, FiniteSets, TLC

VARIABLES
    pc,          \* position of the call: "start", intermediate labels, "done"
    result,      \* how the call ended: [kind |-> "none" | "return" | "raise", ...]
    datafile,    \* load: the path argument
    pathExists,  \* load: what os.path.exists(datafile) answers
    kwargs,      \* load: the keyword options, a set of <<name, value>> pairs
    calls,       \* load: the reader invocations made so far, in order
    args,        \* readers: the datasets/group arguments as the caller passed them
    infile,      \* readers: what is stored on disk at the path argument
    datasets,    \* readers: the datasets argument (rebound by loadGii/loadH5)
    group,       \* loadH5: the group argument
    matData,     \* loadMat: the opened container
    mat,         \* loadMat: the local result array, or Unbound
    gii,         \* loadGii: the image nb.load returned
    darray,      \* loadGii: the local result
    h5Lower,     \* loadH5: which object the sub-handle refers to
    data,        \* loadH5: the mapping under construction
    todo,        \* loadH5: keys the for loop has still to visit
    openHandles  \* HDF5 identifiers that are open and valid

vars == <<pc, result, args, datafile, pathExists, kwargs, calls, infile, datasets,
          group, matData, mat, gii, darray, h5Lower, data, todo, openHandles>>

-----------------------------------------------------------------------------
(* Bounds of the model *)

\* longest directory/stem prefix put in front of a path suffix
MaxStem == 2
\* largest extent of one array axis
MaxDim == 4
\* largest number of data arrays in a GIFTI image
MaxDarrays == 3
\* largest number of vertices (rows) of a GIFTI data array
MaxVerts == 2
\* longest explicit selector / dataset-name list
MaxSel == 2

-----------------------------------------------------------------------------
(* Python values shared by the specifications *)

None == [py |-> "None"]
Unbound == [py |-> "unbound"]
NoResult == [kind |-> "none"]
Return(v) == [kind |-> "return", val |-> v]
Raise(e) == [kind |-> "raise", err |-> e]

SeqsUpTo(S, n) == UNION {[1..k -> S] : k \in 0..n}

RECURSIVE Product(_)
Product(s) == IF s = <<>> THEN 1 ELSE Head(s) * Product(Tail(s))

Reverse(s) == [i \in 1..Len(s) |-> s[Len(s) + 1 - i]]

-----------------------------------------------------------------------------
(* load: lines 17-32 *)

StemChars == {"a", ".", "/"}

Suffixes ==
    { <<".", "m", "a", "t">>, <<".", "g", "i", "i">>, <<".", "h", "5">>,
      <<".", "p">>, <<".", "t", "x", "t">>, <<".", "m">>, <<>>,
      <<".", "m", "a", "t", ".">>, <<"m", "a", "t">>, <<".", "P">> }

Paths == {s \o x : s \in SeqsUpTo(StemChars, MaxStem), x \in Suffixes}

KwargsSets == SUBSET {<<"datasets", "d0">>, <<"group", "g0">>}

\* what a reader does once invoked: it returns some object or raises
ReaderOutcomes == {Return([py |-> "obj", id |-> 1]), Return([py |-> "obj", id |-> 2]),
                   Raise("Warning")}

\* str.rfind, 1-based; 0 when the character does not occur
rfind(p, c) ==
    LET hits == {i \in 1..Len(p) : p[i] = c}
    IN  IF hits = {} THEN 0 ELSE CHOOSE i \in hits : \A j \in hits : j <= i

\* os.path.splitext (posixpath / genericpath._splitext)
splitext_nolead(p) ==
    LET dotIndex == rfind(p, ".")
    IN  IF dotIndex > rfind(p, "/")
        THEN <<SubSeq(p, 1, dotIndex - 1), SubSeq(p, dotIndex, Len(p))>>
        ELSE <<p, <<>> >>

splitext(p) ==
    LET sepIndex == rfind(p, "/")
        dotIndex == rfind(p, ".")
    IN  IF dotIndex > sepIndex
           /\ \E filenameIndex \in (sepIndex + 1)..(dotIndex - 1) : p[filenameIndex] # "."
        THEN <<SubSeq(p, 1, dotIndex - 1), SubSeq(p, dotIndex, Len(p))>>
        ELSE <<p, <<>> >>

function_map_swapped ==
    [e \in {<<".", "m", "a", "t">>, <<".", "g", "i", "i">>, <<".", "h", "5">>, <<".", "p">>} |->
        CASE e = <<".", "m", "a", "t">> -> "loadMat"
          [] e = <<".", "g", "i", "i">> -> "loadH5"
          [] e = <<".", "h", "5">>      -> "loadGii"
          [] e = <<".", "p">>           -> "loadPick"]

function_map ==
    [e \in {<<".", "m", "a", "t">>, <<".", "g", "i", "i">>, <<".", "h", "5">>, <<".", "p">>} |->
        CASE e = <<".", "m", "a", "t">> -> "loadMat"
          [] e = <<".", "g", "i", "i">> -> "loadGii"
          [] e = <<".", "h", "5">>      -> "loadH5"
          [] e = <<".", "p">>           -> "loadPick"]

IdleReaders ==
    /\ args = None /\ infile = None /\ datasets = None /\ group = None
    /\ matData = None /\ mat = Unbound /\ gii = None /\ darray = Unbound
    /\ h5Lower = None /\ data = {} /\ todo = <<>> /\ openHandles = {}

IdleLoad ==
    /\ datafile = <<>> /\ pathExists = FALSE /\ kwargs = {} /\ calls = <<>>

InitLoad ==
    /\ pc = "start"
    /\ result = NoResult
    /\ datafile \in Paths
    /\ pathExists \in BOOLEAN
    /\ (datafile = <<>> => ~pathExists)
    /\ kwargs \in KwargsSets
    /\ calls = <<>>
    /\ IdleReaders

\* line 23: assert os.path.exists(datafile)
load_missing ==
    /\ pc = "start"
    /\ ~pathExists
    /\ result' = Raise("AssertionError")
    /\ pc' = "done"
    /\ UNCHANGED <<args, datafile, pathExists, kwargs, calls, infile, datasets, group,
                   matData, mat, gii, darray, h5Lower, data, todo, openHandles>>

\* lines 25-32 with an extension that is no key of function_map
load_unsupported ==
    /\ pc = "start"
    /\ pathExists
    /\ splitext(datafile)[2] \notin DOMAIN function_map
    /\ result' = Raise("KeyError")
    /\ pc' = "done"
    /\ UNCHANGED <<args, datafile, pathExists, kwargs, calls, infile, datasets, group,
                   matData, mat, gii, darray, h5Lower, data, todo, openHandles>>

\* lines 25-32: function_map[file_extension](datafile, **kwargs), result returned
load_dispatch ==
    /\ pc = "start"
    /\ pathExists
    /\ LET file_extension == splitext(datafile)[2]
       IN  /\ file_extension \in DOMAIN function_map
           /\ \E out \in ReaderOutcomes :
                /\ calls' = Append(calls, [fn |-> function_map[file_extension],
                                           path |-> datafile,
                                           kwargs |-> kwargs,
                                           outcome |-> out])
                /\ result' = out
    /\ pc' = "done"
    /\ UNCHANGED <<args, datafile, pathExists, kwargs, infile, datasets, group,
                   matData, mat, gii, darray, h5Lower, data, todo, openHandles>>

NextLoad == load_missing \/ load_unsupported \/ load_dispatch

SpecLoad == InitLoad /\ [][NextLoad]_vars

-----------------------------------------------------------------------------
(* numpy arrays *)

Front(s) == SubSeq(s, 1, Len(s) - 1)
Last(s) == s[Len(s)]
Range(s) == {s[i] : i \in 1..Len(s)}

\* offset (0-based, row-major) of the element at index tuple idx (0-based)
RECURSIVE Ravel(_, _)
Ravel(shape, idx) ==
    IF shape = <<>> THEN 0
    ELSE Ravel(Front(shape), Front(idx)) * Last(shape) + Last(idx)

\* index tuple (0-based) of the element at row-major offset n (0-based)
RECURSIVE Unravel(_, _)
Unravel(shape, n) ==
    IF shape = <<>> THEN <<>>
    ELSE Append(Unravel(Front(shape), n \div Last(shape)), n % Last(shape))

\* an array of the given shape with pairwise distinct elements base+1, base+2, ...
MkArr(shape, base) ==
    [shape |-> shape, flat |-> [n \in 1..Product(shape) |-> base + n]]

Elem(a, idx) == a.flat[Ravel(a.shape, idx) + 1]

\* ndarray.squeeze(): drop the axes of length one
squeeze(a) == [shape |-> SelectSeq(a.shape, LAMBDA d : d # 1), flat |-> a.flat]

\* ndarray.T: reverse the order of the axes
T(a) ==
    LET tshape == Reverse(a.shape)
    IN  [shape |-> tshape,
         flat  |-> [n \in 1..Product(tshape) |->
                       Elem(a, Reverse(Unravel(tshape, n - 1)))]]

Shapes2D == {<<r, c>> : r \in 1..MaxDim, c \in 1..MaxDim}

-----------------------------------------------------------------------------
(* loadMat: lines 35-84 *)

Str(s) == [py |-> "str", s |-> s]

\* Python truth value of a None-or-string argument
Truthy(x) == x # None /\ x.s # <<>>

\* str.startswith
startswith(k, c) == Len(k) > 0 /\ k[1] = c

\* key names, listed in the order an HDF5 container iterates them (by name)
MatKeyOrder == << <<"_", "h">>, <<"d">>, <<"x">> >>
MatKeys == Range(MatKeyOrder)
KeyRank(k) == CHOOSE i \in 1..Len(MatKeyOrder) : MatKeyOrder[i] = k

DistinctSeqs(S) == {q \in SeqsUpTo(S, Cardinality(S)) : \A i, j \in 1..Len(q) : i # j => q[i] # q[j]}
IsSortedByName(q) == \A i, j \in 1..Len(q) : i < j => KeyRank(q[i]) < KeyRank(q[j])

\* the files loadMat may find: an HDF5-backed MATLAB file (keys iterate by
\* name), a legacy MATLAB file (keys iterate in file order), a path with no
\* file, or a file neither backend can parse
MatFiles ==
    {[fmt |-> f, keys |-> q,
      arrays |-> [k \in Range(q) |-> MkArr(sh, 100 * KeyRank(k))]] :
        f \in {"hdf5", "legacy"}, q \in DistinctSeqs(MatKeys), sh \in Shapes2D}
    \cup {[fmt |-> f, keys |-> <<>>, arrays |-> <<>>] : f \in {"missing", "unreadable"}}

MatDatasetArgs == {None, Str(<<>>), Str(<<"q">>)} \cup {Str(k) : k \in MatKeys}

InitMat ==
    /\ pc = "start"
    /\ result = NoResult
    /\ IdleLoad
    /\ infile \in MatFiles
    /\ (infile.fmt = "hdf5" => IsSortedByName(infile.keys))
    /\ datasets \in MatDatasetArgs
    /\ group = None
    /\ args = [datasets |-> datasets, group |-> group]
    /\ matData = None /\ mat = Unbound /\ gii = None /\ darray = Unbound
    /\ h5Lower = None /\ data = {} /\ todo = <<>> /\ openHandles = {}

\* lines 46-53: h5py.File first, scipy.io.loadmat when that raises OSError
loadMat_open ==
    /\ pc = "start"
    /\ CASE infile.fmt = "hdf5" ->
              /\ matData' = [type |-> "File", keys |-> infile.keys]
              /\ openHandles' = openHandles \cup {"h5"}
              /\ pc' = "opened"
              /\ UNCHANGED result
         [] infile.fmt = "legacy" ->
              /\ matData' = [type |-> "dict", keys |-> infile.keys]
              /\ pc' = "opened"
              /\ UNCHANGED <<openHandles, result>>
         [] infile.fmt = "missing" ->
              /\ result' = Raise("Warning")
              /\ pc' = "done"
              /\ UNCHANGED <<matData, openHandles>>
         [] infile.fmt = "unreadable" ->
              /\ result' = Raise("ValueError")
              /\ pc' = "done"
              /\ UNCHANGED <<matData, openHandles>>
    /\ UNCHANGED <<args, datafile, pathExists, kwargs, calls, infile, datasets, group,
                   mat, gii, darray, h5Lower, data, todo>>

\* lines 56-63: a dataset name was given
loadMat_named ==
    /\ pc = "opened"
    /\ Truthy(datasets)
    /\ IF datasets.s \in Range(matData.keys)
       THEN LET m == squeeze(infile.arrays[datasets.s])
            IN  mat' = IF matData.type = "File" THEN T(m) ELSE m
       ELSE mat' = mat          \* except KeyError: pass
    /\ pc' = "selected"
    /\ UNCHANGED <<result, args, datafile, pathExists, kwargs, calls, infile, datasets,
                   group, matData, gii, darray, h5Lower, data, todo, openHandles>>

\* lines 67-78: no name given; matData is rebound to a plain dict of the
\* non-private keys before the first of them is read
loadMat_default ==
    /\ pc = "opened"
    /\ ~Truthy(datasets)
    /\ LET keys == SelectSeq(matData.keys, LAMBDA k : startswith(k, "_"))
           filtered == [type |-> "dict",
                        keys |-> SelectSeq(matData.keys, LAMBDA k : k \notin Range(keys))]
       IN  /\ matData' = filtered
           /\ IF filtered.keys = <<>>
              THEN /\ result' = Raise("IndexError")
                   /\ pc' = "done"
                   /\ UNCHANGED mat
              ELSE LET key == filtered.keys[1]
                       m == squeeze(infile.arrays[key])
                   IN  /\ mat' = IF filtered.type = "File" THEN T(m) ELSE m
                       /\ pc' = "selected"
                       /\ UNCHANGED result
    /\ UNCHANGED <<args, datafile, pathExists, kwargs, calls, infile, datasets, group,
                   gii, darray, h5Lower, data, todo, openHandles>>

\* lines 81-84: close when matData is (still) an h5py File, then return mat
loadMat_return ==
    /\ pc = "selected"
    /\ openHandles' = IF matData.type = "File" THEN openHandles \ {"h5"} ELSE openHandles
    /\ result' = IF mat = Unbound THEN Raise("UnboundLocalError") ELSE Return(mat)
    /\ pc' = "done"
    /\ UNCHANGED <<args, datafile, pathExists, kwargs, calls, infile, datasets, group,
                   matData, mat, gii, darray, h5Lower, data, todo>>

NextMat == loadMat_open \/ loadMat_named \/ loadMat_default \/ loadMat_return

SpecMat == InitMat /\ [][NextMat]_vars

-----------------------------------------------------------------------------
(* loadGii: lines 87-120 *)

\* numpy.column_stack: arrays of fewer than two axes become columns
\* (array(arr, ndmin=2).T), then everything is concatenated along axis 1
AsColumn(a) ==
    IF Len(a.shape) >= 2 THEN a
    ELSE [shape |-> <<Product(a.shape), 1>>, flat |-> a.flat]

\* concatenate raises ValueError on an empty list or on differing row counts
CanColumnStack(arrs) ==
    /\ arrs # <<>>
    /\ \A i \in 1..Len(arrs) : AsColumn(arrs[i]).shape[1] = AsColumn(arrs[1]).shape[1]

RECURSIVE SumCols(_)
SumCols(arrs) == IF arrs = <<>> THEN 0 ELSE AsColumn(Head(arrs)).shape[2] + SumCols(Tail(arrs))

\* which array, and which of its columns, supplies column c (0-based) of the stack
RECURSIVE Locate(_, _)
Locate(arrs, c) ==
    LET w == AsColumn(Head(arrs)).shape[2]
    IN  IF c < w THEN <<1, c>>
        ELSE LET x == Locate(Tail(arrs), c - w) IN <<x[1] + 1, x[2]>>

column_stack(arrs) ==
    LET R == AsColumn(arrs[1]).shape[1]
        C == SumCols(arrs)
    IN  [shape |-> <<R, C>>,
         flat  |-> [n \in 1..(R * C) |->
                       LET at == Locate(arrs, (n - 1) % C)
                       IN  Elem(AsColumn(arrs[at[1]]), <<(n - 1) \div C, at[2]>>)]]

DarrayShapes == UNION {{<<n>>, <<n, 1>>, <<n, 2>>} : n \in 1..MaxVerts}

\* what nb.load may find: a GIFTI image with some data arrays, a volumetric
\* (Nifti2) image, an image of any other class, or a file it cannot read
GiiFiles ==
    {[kind |-> "GiftiImage",
      darrays |-> [i \in 1..Len(shs) |-> MkArr(shs[i], 100 * i)]] :
        shs \in SeqsUpTo(DarrayShapes, MaxDarrays)}
    \cup {[kind |-> "Nifti2Image", data |-> MkArr(sh, 0)] : sh \in Shapes2D}
    \cup {[kind |-> "Nifti1Image"], [kind |-> "unreadable"]}

PyInt(i) == [py |-> "int", v |-> i]
PyList(q) == [py |-> "list", items |-> q]
NdArray(q) == [py |-> "ndarray", items |-> q]

\* selectors: indices are 0-based, so an entry may lie past the end of a
\* smaller image (and the integer MaxDarrays past the end of every image)
GiiSelectors ==
    {PyInt(i) : i \in 0..MaxDarrays}
    \cup {PyList(q) : q \in SeqsUpTo(0..(MaxDarrays - 1), MaxSel)}
    \cup {NdArray(q) : q \in SeqsUpTo(0..(MaxDarrays - 1), MaxSel)}

InitGii ==
    /\ pc = "start"
    /\ result = NoResult
    /\ IdleLoad
    /\ infile \in GiiFiles
    /\ datasets \in GiiSelectors
    /\ group = None
    /\ args = [datasets |-> datasets, group |-> group]
    /\ matData = None /\ mat = Unbound /\ gii = None /\ darray = Unbound
    /\ h5Lower = None /\ data = {} /\ todo = <<>> /\ openHandles = {}

\* lines 98-101
loadGii_open ==
    /\ pc = "start"
    /\ IF infile.kind = "unreadable"
       THEN /\ result' = Raise("Warning")
            /\ pc' = "done"
            /\ UNCHANGED gii
       ELSE /\ gii' = infile
            /\ pc' = "loaded"
            /\ UNCHANGED result
    /\ UNCHANGED <<args, datafile, pathExists, kwargs, calls, infile, datasets, group,
                   matData, mat, darray, h5Lower, data, todo, openHandles>>

\* the indices np.arange(len(gii.darrays)) lists
arange(n) == [i \in 1..n |-> i - 1]

\* lines 103-108: the elif chain that rebinds datasets
normalize_noexpand(d, g) ==
    IF d.py = "int" THEN PyList(<<d.v>>)
    ELSE PyList(d.items)

normalize(d, g) ==
    IF d.py = "int" THEN PyList(<<d.v>>)
    ELSE IF d.py = "ndarray" THEN PyList(d.items)
    ELSE IF d = PyList(<<>>) THEN PyList(arange(Len(g.darrays)))
    ELSE d

\* lines 103-108; only a GiftiImage has the darrays attribute line 108 reads
loadGii_normalize ==
    /\ pc = "loaded"
    /\ IF datasets = PyList(<<>>) /\ gii.kind # "GiftiImage"
       THEN /\ result' = Raise("AttributeError")
            /\ pc' = "done"
            /\ UNCHANGED datasets
       ELSE /\ datasets' = normalize(datasets, gii)
            /\ pc' = "normalized"
            /\ UNCHANGED result
    /\ UNCHANGED <<args, datafile, pathExists, kwargs, calls, infile, group,
                   matData, mat, gii, darray, h5Lower, data, todo, openHandles>>

\* lines 110-114 and 120: a GIFTI image
stack(arrs) == squeeze(column_stack(arrs))

loadGii_gifti ==
    /\ pc = "normalized"
    /\ gii.kind = "GiftiImage"
    /\ LET sel == datasets.items
           n == Len(gii.darrays)
       IN  IF \E k \in 1..Len(sel) : sel[k] >= n
           THEN /\ result' = Raise("IndexError")
                /\ UNCHANGED darray
           ELSE LET arrs == [k \in 1..Len(sel) |-> squeeze(gii.darrays[sel[k] + 1])]
                IN  IF CanColumnStack(arrs)
                    THEN /\ darray' = stack(arrs)
                         /\ result' = Return(stack(arrs))
                    ELSE /\ result' = Raise("ValueError")
                         /\ UNCHANGED darray
    /\ pc' = "done"
    /\ UNCHANGED <<args, datafile, pathExists, kwargs, calls, infile, datasets, group,
                   matData, mat, gii, h5Lower, data, todo, openHandles>>

\* lines 115-116 and 120: a volumetric image
loadGii_nifti2 ==
    /\ pc = "normalized"
    /\ gii.kind = "Nifti2Image"
    /\ darray' = squeeze(gii.data)
    /\ result' = Return(squeeze(gii.data))
    /\ pc' = "done"
    /\ UNCHANGED <<args, datafile, pathExists, kwargs, calls, infile, datasets, group,
                   matData, mat, gii, h5Lower, data, todo, openHandles>>

\* lines 117-118: any other image class
loadGii_other ==
    /\ pc = "normalized"
    /\ gii.kind \notin {"GiftiImage", "Nifti2Image"}
    /\ result' = Raise("IOError")
    /\ pc' = "done"
    /\ UNCHANGED <<args, datafile, pathExists, kwargs, calls, infile, datasets, group,
                   matData, mat, gii, darray, h5Lower, data, todo, openHandles>>

NextGii == loadGii_open \/ loadGii_normalize \/ loadGii_gifti \/ loadGii_nifti2 \/ loadGii_other

SpecGii == InitGii /\ [][NextGii]_vars

-----------------------------------------------------------------------------
(* loadH5: lines 123-166 *)

\* dataset names, in the order h5py iterates them (by name); "g" is the one
\* name that may be a group
H5NameOrder == << <<"a">>, <<"b">>, <<"c">> >>
H5Names == Range(H5NameOrder)
GroupName == <<"g">>
H5KeyOrder == H5NameOrder \o <<GroupName>>

SortedKeys(S) == SelectSeq(H5KeyOrder, LAMBDA k : k \in S)

\* the files loadH5 may find: no file, a file h5py cannot open, or an HDF5
\* file with datasets at top level and possibly a group "g" holding datasets
H5Files ==
    {[state |-> "ok", top |-> t, hasGroup |-> hg, children |-> c] :
        t \in SUBSET (H5Names \ {<<"c">>}), hg \in BOOLEAN, c \in SUBSET (H5Names \ {<<"a">>})}
    \cup {[state |-> st, top |-> {}, hasGroup |-> FALSE, children |-> {}] :
            st \in {"missing", "unreadable"}}

H5DatasetArgs == {None} \cup {PyList(q) : q \in SeqsUpTo(H5Names, MaxSel)}
H5GroupArgs == {None, Str(<<>>), Str(GroupName)}

\* Python truth value of a None-or-list argument
TruthyList(x) == x # None /\ x.items # <<>>

\* the array stored under key k of the file (inGroup = FALSE) or of the group
Stored(inGroup, k) ==
    MkArr(<<2>>, (IF inGroup THEN 100 ELSE 0) + 10 * (CHOOSE i \in 1..Len(H5NameOrder) : H5NameOrder[i] = k))

\* keys directly under the object h5Lower refers to
Members(f, lower) ==
    IF lower.py = "Group" THEN f.children
    ELSE f.top \cup (IF f.hasGroup THEN {GroupName} ELSE {})

\* np.asarray of the object stored under key k
Materialize(f, lower, k) ==
    IF lower.py = "File" /\ k = GroupName
    THEN [py |-> "ndarray", names |-> SortedKeys(f.children)]
    ELSE Stored(lower.py = "Group", k)

\* an identifier is usable while it is open; closing the file invalidates
\* every identifier opened from it
HandleOf(lower) == IF lower.py = "Group" THEN "group" ELSE "h5"
Usable(lower, open) == HandleOf(lower) \in open

\* what h5py raises when an invalidated identifier is used depends on the
\* h5py/HDF5 versions
InvalidHandleErrors == {"ValueError", "KeyError", "RuntimeError"}

MissingGroup == "Warning: File does not have group"
MissingKey == "Warning: File does not have attribute"

InitH5 ==
    /\ pc = "start"
    /\ result = NoResult
    /\ IdleLoad
    /\ infile \in H5Files
    /\ datasets \in H5DatasetArgs
    /\ group \in H5GroupArgs
    /\ args = [datasets |-> datasets, group |-> group]
    /\ matData = None /\ mat = Unbound /\ gii = None /\ darray = Unbound
    /\ h5Lower = None /\ data = {} /\ todo = <<>> /\ openHandles = {}

\* lines 136-141
loadH5_open ==
    /\ pc = "start"
    /\ CASE infile.state = "missing" ->
              /\ result' = Raise("AssertionError")
              /\ pc' = "done"
              /\ UNCHANGED openHandles
         [] infile.state = "unreadable" ->
              /\ result' = Raise("Warning: File cannot be loaded")
              /\ pc' = "done"
              /\ UNCHANGED openHandles
         [] infile.state = "ok" ->
              /\ openHandles' = openHandles \cup {"h5"}
              /\ pc' = "opened"
              /\ UNCHANGED result
    /\ UNCHANGED <<args, datafile, pathExists, kwargs, calls, infile, datasets, group,
                   matData, mat, gii, darray, h5Lower, data, todo>>

\* line 148: File.close() closes the file and every identifier opened from it
CloseFile(open) == {}

\* lines 144-152
loadH5_group ==
    /\ pc = "opened"
    /\ data' = {}
    /\ IF Truthy(group)
       THEN IF infile.hasGroup /\ group.s = GroupName
            THEN /\ h5Lower' = [py |-> "Group"]
                 /\ openHandles' = CloseFile(openHandles \cup {"group"})
                 /\ pc' = "resolved"
                 /\ UNCHANGED result
            ELSE /\ result' = Raise(MissingGroup)
                 /\ pc' = "done"
                 /\ UNCHANGED <<h5Lower, openHandles>>
       ELSE /\ h5Lower' = [py |-> "File"]
            /\ pc' = "resolved"
            /\ UNCHANGED <<result, openHandles>>
    /\ UNCHANGED <<args, datafile, pathExists, kwargs, calls, infile, datasets, group,
                   matData, mat, gii, darray, todo>>

\* lines 155-158: default to every key under h5Lower, then enter the loop
loadH5_keys ==
    /\ pc = "resolved"
    /\ IF TruthyList(datasets)
       THEN /\ todo' = datasets.items
            /\ pc' = "reading"
            /\ UNCHANGED <<datasets, result>>
       ELSE IF Usable(h5Lower, openHandles)
            THEN /\ datasets' = PyList(SortedKeys(Members(infile, h5Lower)))
                 /\ todo' = SortedKeys(Members(infile, h5Lower))
                 /\ pc' = "reading"
                 /\ UNCHANGED result
            ELSE /\ \E e \in InvalidHandleErrors : result' = Raise(e)
                 /\ pc' = "done"
                 /\ UNCHANGED <<datasets, todo>>
    /\ UNCHANGED <<args, datafile, pathExists, kwargs, calls, infile, group,
                   matData, mat, gii, darray, h5Lower, data, openHandles>>

\* lines 158-162: one iteration of the loop; a KeyError becomes the Warning
loadH5_read ==
    /\ pc = "reading"
    /\ todo # <<>>
    /\ LET k == Head(todo)
       IN  IF ~Usable(h5Lower, openHandles)
           THEN /\ \E e \in InvalidHandleErrors :
                      result' = Raise(IF e = "KeyError" THEN MissingKey ELSE e)
                /\ pc' = "done"
                /\ UNCHANGED <<data, todo>>
           ELSE IF k \in Members(infile, h5Lower)
           THEN /\ data' = {p \in data : p[1] # k} \cup {<<k, Materialize(infile, h5Lower, k)>>}
                /\ todo' = Tail(todo)
                /\ UNCHANGED <<pc, result>>
           ELSE /\ result' = Raise(MissingKey)
                /\ pc' = "done"
                /\ UNCHANGED <<data, todo>>
    /\ UNCHANGED <<args, datafile, pathExists, kwargs, calls, infile, datasets, group,
                   matData, mat, gii, darray, h5Lower, openHandles>>

\* lines 164-166: h5Lower.close() (only a File has close), return data
loadH5_return ==
    /\ pc = "reading"
    /\ todo = <<>>
    /\ IF h5Lower.py = "File"
       THEN /\ openHandles' = openHandles \ {"h5"}
            /\ result' = Return(data)
       ELSE /\ result' = Raise("AttributeError")
            /\ UNCHANGED openHandles
    /\ pc' = "done"
    /\ UNCHANGED <<args, datafile, pathExists, kwargs, calls, infile, datasets, group,
                   matData, mat, gii, darray, h5Lower, data, todo>>

NextH5 == loadH5_open \/ loadH5_group \/ loadH5_keys \/ loadH5_read \/ loadH5_return

SpecH5 == InitH5 /\ [][NextH5]_vars

-----------------------------------------------------------------------------
(* Properties of load *)

EndsWith(p, e) == Len(p) >= Len(e) /\ SubSeq(p, Len(p) - Len(e) + 1, Len(p)) = e

\* p names a file whose extension is e: p ends in e and the file name in front
\* of e holds a character other than a dot (e is a dot followed by letters)
NamedExtension(p, e) ==
    /\ EndsWith(p, e)
    /\ \E i \in 1..(Len(p) - Len(e)) :
          /\ p[i] # "."
          /\ \A j \in i..(Len(p) - Len(e)) : p[j] # "/"

Registered ==
    { <<<<".", "m", "a", "t">>, "loadMat">>, <<<<".", "g", "i", "i">>, "loadGii">>,
      <<<<".", "h", "5">>, "loadH5">>, <<<<".", "p">>, "loadPick">> }

HasRegisteredExtension(p) == \E r \in Registered : NamedExtension(p, r[1])

\* C1: for an existing path with extension .mat, .gii, .h5 or .p, load invokes
\* the correspondingly named reader exactly once, with the same path and the
\* keyword options unchanged, invokes no other reader, and ends the way that
\* reader ended (returns its result).
C1_RoutesToNamedReader ==
    (pc = "done" /\ pathExists) =>
        \A r \in Registered :
            NamedExtension(datafile, r[1]) =>
                /\ Len(calls) = 1
                /\ calls[1].fn = r[2]
                /\ calls[1].path = datafile
                /\ calls[1].kwargs = kwargs
                /\ result = calls[1].outcome

C1_Witness ==
    /\ pc = "done" /\ pathExists
    /\ datafile = <<"/", "a", ".", "g", "i", "i">>
    /\ kwargs = {<<"datasets", "d0">>, <<"group", "g0">>}
    /\ Len(calls) = 1 /\ calls[1].fn = "loadGii"
    /\ result = Return([py |-> "obj", id |-> 2])

\* C2: load invokes a reader only if the path exists and its extension is
\* registered; a path that does not exist fails with the missing-file
\* (assertion) error whatever its extension, and an existing path with any
\* other extension fails with the lookup error (KeyError).
C2_NoReaderUnlessExistsAndRegistered ==
    /\ calls # <<>> => (pathExists /\ HasRegisteredExtension(datafile))
    /\ (pc = "done" /\ ~pathExists) =>
           (result = Raise("AssertionError") /\ calls = <<>>)
    /\ (pc = "done" /\ pathExists /\ ~HasRegisteredExtension(datafile)) =>
           (result = Raise("KeyError") /\ calls = <<>>)

C2_Witness ==
    /\ pc = "done" /\ pathExists
    /\ datafile = <<"a", "/", ".", "m", "a", "t">>
    /\ result = Raise("KeyError") /\ calls = <<>>

-----------------------------------------------------------------------------
(* Properties of loadMat *)

MatOpened == infile.fmt \in {"hdf5", "legacy"}

IndexTuples(shape) == {Unravel(shape, n) : n \in 0..(Product(shape) - 1)}

\* b is a with its axes in reverse order
IsTransposeOf(b, a) ==
    /\ b.shape = Reverse(a.shape)
    /\ \A idx \in IndexTuples(a.shape) : Elem(b, Reverse(idx)) = Elem(a, idx)

\* the key the call selects: the name given, else the first non-private key
MatSelectedKey ==
    IF Truthy(datasets) THEN datasets.s
    ELSE SelectSeq(infile.keys, LAMBDA k : ~startswith(k, "_"))[1]

\* C3: loadMat called with a dataset name that is absent from the opened
\* container (HDF5-backed or legacy) completes without raising and returns
\* an empty/no result.
C3_AbsentNameYieldsNothing ==
    (pc = "done" /\ MatOpened /\ Truthy(datasets) /\ datasets.s \notin Range(infile.keys)) =>
        result = Return(None)

\* C4: whenever loadMat opened the file through the HDF5 backend the array
\* it returns is the transpose of the stored, squeezed array, whether the
\* dataset was named or selected by default; with the legacy backend the
\* stored, squeezed array is returned as it is.
C4_TransposedWheneverHdf5 ==
    (pc = "done" /\ result.kind = "return") =>
        LET stored == squeeze(infile.arrays[MatSelectedKey])
        IN  /\ infile.fmt = "hdf5" => IsTransposeOf(result.val, stored)
            /\ infile.fmt = "legacy" => result.val = stored

\* C5: on every path on which loadMat returns, the HDF5 file handle it
\* opened has been closed before the return.
C5_MatHandleClosedOnReturn ==
    (pc = "done" /\ result.kind = "return") => openHandles = {}

-----------------------------------------------------------------------------
(* Properties of loadGii *)

\* the selector the caller's argument stands for, given n data arrays
ExpectedSelector(a, n) ==
    IF a.py = "int" THEN <<a.v>>
    ELSE IF a = PyList(<<>>) THEN [i \in 1..n |-> i - 1]
    ELSE a.items

\* column k (1-based) of a two-axis array, as a one-axis array
Column(a, k) ==
    [shape |-> <<a.shape[1]>>,
     flat  |-> [r \in 1..a.shape[1] |-> Elem(a, <<r - 1, k - 1>>)]]

\* the result is the selected arrays side by side, one column each; a single
\* selected array is returned on its own, squeezed (so never as a column matrix)
StackedByColumn(val, sel, darrays) ==
    IF Len(sel) = 1
    THEN val = squeeze(darrays[sel[1] + 1])
    ELSE /\ Len(val.shape) = 2
         /\ val.shape[2] = Len(sel)
         /\ \A k \in 1..Len(sel) : Column(val, k) = squeeze(darrays[sel[k] + 1])

\* when several arrays are selected, each squeezes to one axis and all have
\* the same length
SelectedAreVectors(sel, darrays) ==
    Len(sel) >= 2 => \A k \in 1..Len(sel) :
        /\ Len(squeeze(darrays[sel[k] + 1]).shape) = 1
        /\ squeeze(darrays[sel[k] + 1]).shape = squeeze(darrays[sel[1] + 1]).shape

\* C6 as stated: on a multi-array GIFTI image loadGii normalizes the selector
\* (int i to [i], array-like to list, empty/default to all indices in order)
\* and returns the selected arrays column-stacked, column k being the squeezed
\* darray at the k-th selector entry; a one-entry selector gives that single
\* squeezed array, not a column matrix.  (Selector entries are valid indices,
\* at least one.)
C6_ColumnStacked_AsStated ==
    (pc = "done" /\ infile.kind = "GiftiImage") =>
        LET n == Len(infile.darrays)
            sel == ExpectedSelector(args.datasets, n)
        IN  (sel # <<>> /\ \A k \in 1..Len(sel) : sel[k] < n) =>
                /\ result.kind = "return"
                /\ datasets = PyList(sel)
                /\ StackedByColumn(result.val, sel, infile.darrays)

\* C6 amended: the same, provided that when two or more arrays are selected
\* every selected darray squeezes to a one-axis array and all of them have the
\* same length.
C6_ColumnStacked ==
    (pc = "done" /\ infile.kind = "GiftiImage") =>
        LET n == Len(infile.darrays)
            sel == ExpectedSelector(args.datasets, n)
        IN  (/\ sel # <<>>
             /\ \A k \in 1..Len(sel) : sel[k] < n
             /\ SelectedAreVectors(sel, infile.darrays)) =>
                /\ result.kind = "return"
                /\ datasets = PyList(sel)
                /\ StackedByColumn(result.val, sel, infile.darrays)

\* an empty selector on a 3-array image of 2-vertex arrays: 3 columns, order 0,1,2
C6_Witness ==
    /\ pc = "done" /\ infile.kind = "GiftiImage"
    /\ Len(infile.darrays) = 3
    /\ args.datasets = PyList(<<>>)
    /\ datasets = PyList(<<0, 1, 2>>)
    /\ result = Return([shape |-> <<2, 3>>, flat |-> <<101, 201, 301, 102, 202, 302>>])

\* C7: on a volumetric (Nifti2) image loadGii returns the embedded data array,
\* squeezed, for every selector value including the default empty selector;
\* on any other non-GIFTI container it fails with the unsupported-type error
\* (IOError), again for every selector value.
C7_VolumetricAndOtherContainers ==
    /\ (pc = "done" /\ infile.kind = "Nifti2Image") =>
           result = Return(squeeze(infile.data))
    /\ (pc = "done" /\ infile.kind = "Nifti1Image") =>
           result = Raise("IOError")

-----------------------------------------------------------------------------
(* Properties of loadH5 *)

H5Opened == infile.state = "ok"
GroupRequested == Truthy(args.group)
GroupPresent == infile.hasGroup /\ args.group.s = GroupName

\* the keys directly under the group/file the call resolves
ResolvedMembers ==
    IF GroupRequested THEN infile.children
    ELSE infile.top \cup (IF infile.hasGroup THEN {GroupName} ELSE {})

\* C8: loadH5 called with a group path that exists and no explicit dataset
\* list returns normally a mapping whose key set is exactly the keys directly
\* under that group, each mapped to its materialized array.
C8_GroupDefaultReturnsAllKeys ==
    (pc = "done" /\ H5Opened /\ GroupRequested /\ GroupPresent /\ ~TruthyList(args.datasets)) =>
        /\ result.kind = "return"
        /\ result.val = {<<k, Stored(TRUE, k)>> : k \in infile.children}

\* C9: a request for an absent group fails with the missing-group error, a
\* request for a dataset key absent under the resolved group/file fails with
\* the MissingKey error, and in neither case is a mapping returned.
C9_MissingGroupOrKeyRaises ==
    /\ (pc = "done" /\ H5Opened /\ GroupRequested /\ ~GroupPresent) =>
           result = Raise(MissingGroup)
    /\ (pc = "done" /\ H5Opened /\ (GroupRequested => GroupPresent)
           /\ TruthyList(args.datasets)
           /\ \E i \in 1..Len(args.datasets.items) :
                 args.datasets.items[i] \notin ResolvedMembers) =>
           result = Raise(MissingKey)

\* C10: on every exit path of a loadH5 call (normal return, missing-group
\* error, missing-key error) no HDF5 file or group handle opened by the call
\* remains open.
C10_H5HandlesReleasedOnExit ==
    pc = "done" => openHandles = {}

====
